---- MODULE Spec2Model ----
(***************************************************************************)
(* nixseparatedebuginfod: the store watcher (src/store.rs) that indexes    *)
(* the build-ids of new store paths into the cache, and the debuginfod     *)
(* request handlers (src/server.rs) that serve files out of that cache.    *)
(*                                                                         *)
(* Strings and paths are sequences of one-character strings, so that       *)
(* prefix, suffix, slicing and component tests are computed as the code    *)
(* computes them.                                                          *)
(***************************************************************************)
EXTENDS Integers, Sequences, FiniteSets, TLC

VARIABLES
  store_db, world, cache_rows, cache_timestamp, from_timestamp, poller, path_ch,
  pool_queue, jobs, done_ch, entry_ch, hist, crashes,
  bq,              \* SpecBatch: one call of get_new_store_path_batch
  cc,              \* SpecCache: a sequence of Cache::register calls
  sc,              \* SpecScan: one call of register_store_path
  srv,             \* SpecServer: one request to the server
  ld               \* SpecLoad: one channel, or the pool, under load

\* Option<T>: None is the empty sequence, Some(x) the one-element sequence
None == <<>>
Some(x) == <<x>>

Max(a, b) == IF a >= b THEN a ELSE b
Min(a, b) == IF a <= b THEN a ELSE b

Range(s) == {s[i] : i \in DOMAIN s}

(***************************************************************************)
(* str / Path primitives of the Rust standard library, as the code uses    *)
(* them.                                                                   *)
(***************************************************************************)
\* str::starts_with
StartsWith(s, p) == Len(p) <= Len(s) /\ SubSeq(s, 1, Len(p)) = p

\* str::ends_with, <[u8]>::ends_with
EndsWith(s, p) == Len(p) <= Len(s) /\ SubSeq(s, Len(s) - Len(p) + 1, Len(s)) = p

\* s.chars().filter(|&x| x == c).count()
CountChar(s, c) == Cardinality({i \in DOMAIN s : s[i] = c})

Digit == <<"0", "1", "2", "3", "4", "5", "6", "7", "8", "9">>

RECURSIVE Decimal(_)
Decimal(n) == IF n < 10 THEN <<Digit[n + 1]>>
              ELSE Decimal(n \div 10) \o <<Digit[(n % 10) + 1]>>

S_slash == <<"/">>
S_nix_store == <<"/", "n", "i", "x", "/", "s", "t", "o", "r", "e">>

(***************************************************************************)
(* The nix database, table ValidPaths: a sequence of rows in table order.  *)
(***************************************************************************)
Row(p, t) == [path |-> p, registrationTime |-> t]

\* limit 100 of the candidates sub-query
BatchLimit == 100

\* order by registrationTime asc
RECURSIVE SortAsc(_)
SortAsc(ts) ==
  IF ts = <<>> THEN <<>>
  ELSE LET lo == CHOOSE v \in Range(ts) : \A w \in Range(ts) : v <= w
           IsLo(v) == v = lo
           NotLo(v) == v # lo
       IN  SelectSeq(ts, IsLo) \o SortAsc(SelectSeq(ts, NotLo))

\* with candidates(registrationTime) as (select registrationTime from ValidPaths
\*   where registrationTime >= $1 order by registrationTime asc limit 100)
Candidates(db, from) ==
  LET Recent(r) == r.registrationTime >= from
      recent == SelectSeq(db, Recent)
      times == SortAsc([i \in DOMAIN recent |-> recent[i].registrationTime])
  IN  SubSeq(times, 1, Min(BatchLimit, Len(times)))

\* select max(registrationTime) from candidates
MaxCandidate(cands) ==
  CHOOSE v \in Range(cands) : \A w \in Range(cands) : w <= v

UpTo_Exclusive(t, hi) == t < hi

\* The ordering against the sub-query's maximum: the upper end is included
UpTo(t, hi) == t <= hi

SelectRows_FromStart(db, from) == db

\* select path, registrationTime from ValidPaths where registrationTime >= $1
\*   and registrationTime <= (... select max(registrationTime) from candidates)
SelectRows(db, from) ==
  LET cands == Candidates(db, from)
      InBatch(r) == /\ r.registrationTime >= from
                    /\ UpTo(r.registrationTime, MaxCandidate(cands))
  IN  \* max over no candidate is NULL, and no row compares <= NULL
      IF cands = <<>> THEN <<>> ELSE SelectSeq(db, InBatch)

RowCorrupted_PrefixOnly(path) == ~StartsWith(path, S_nix_store)

\* !path.starts_with("/nix/store") || path.chars().filter(|&x| x == '/').count() != 3
RowCorrupted(path) ==
  ~StartsWith(path, S_nix_store) \/ CountChar(path, "/") # 3

\* for row in rows { ..bail!.. paths.push(..); max_time = time.max(max_time) }
\* starting from paths = [] and max_time = 0: the loop stops at the first
\* corrupted row, and otherwise keeps every path and the largest time
ReadRows(rows) ==
  LET bad == {i \in DOMAIN rows : RowCorrupted(rows[i].path)}
      read == IF bad = {} THEN rows
              ELSE SubSeq(rows, 1, (CHOOSE i \in bad : \A j \in bad : i <= j) - 1)
      times == {read[i].registrationTime : i \in DOMAIN read} \cup {0}
  IN  [err |-> bad # {},
       paths |-> [i \in DOMAIN read |-> read[i].path],
       max_time |-> CHOOSE t \in times : \A u \in times : u <= t]

ZeroTimeCheck_Negated(max_time, paths) == (max_time = 0) = (paths = <<>>)

\* if (max_time == 0) ^ paths.is_empty() { anyhow::bail!(..) }
ZeroTimeCheck(max_time, paths) == (max_time = 0) # (paths = <<>>)

NewTimestamp_NoStep(max_time) == max_time

\* Ok((paths, max_time + 1))
NewTimestamp(max_time) == max_time + 1

BatchErr == [ok |-> FALSE, paths |-> <<>>, time |-> 0]

\* dbOk: whether opening and reading the nix database succeeded;
\* db: the table as this read sees it
get_new_store_path_batch(from, db, dbOk) ==
  IF ~dbOk THEN BatchErr
  ELSE LET r == ReadRows(SelectRows(db, from))
       IN  IF r.err THEN BatchErr
           ELSE IF ZeroTimeCheck(r.max_time, r.paths) THEN BatchErr
           ELSE [ok |-> TRUE, paths |-> r.paths, time |-> NewTimestamp(r.max_time)]

(***************************************************************************)
(* The cache (crate::db, Cache): build-id -> (executable, debuginfo,       *)
(* source), and the registration timestamp.  An Entry is                   *)
(* [buildid, executable, debuginfo, source], the last three Option<String>.*)
(***************************************************************************)
Entry(b, e, d, s) == [buildid |-> b, executable |-> e, debuginfo |-> d, source |-> s]

EntryFields == {"executable", "debuginfo", "source"}

EmptyCache == [b \in {} |-> None]

UpsertField_Overwrite(old, new) == new

\* A null field does not overwrite the stored one
UpsertField(old, new) == IF new # None THEN new ELSE old

\* Cache::register: upsert of the row keyed by entry.buildid
Register(rows, entry) ==
  LET old == IF entry.buildid \in DOMAIN rows THEN rows[entry.buildid]
             ELSE [f \in EntryFields |-> None]
      new == [f \in EntryFields |-> UpsertField(old[f], entry[f])]
  IN  [b \in DOMAIN rows \cup {entry.buildid} |->
         IF b = entry.buildid THEN new ELSE rows[b]]

\* Cache::get_debuginfo, get_executable, get_source
Lookup(rows, buildid, field) ==
  IF buildid \in DOMAIN rows THEN rows[buildid][field] ELSE None

(***************************************************************************)
(* Paths, the file system and the nix-store tool, as the scan sees them.   *)
(***************************************************************************)
S_lib == <<"l", "i", "b">>
S_debug == <<"d", "e", "b", "u", "g">>
S_build_id == <<".", "b", "u", "i", "l", "d", "-", "i", "d">>
S_dash_debug == <<"-", "d", "e", "b", "u", "g">>
S_dot_debug == <<".", "d", "e", "b", "u", "g">>
S_newline == <<"\n">>
S_unknown_deriver == <<"u", "n", "k", "n", "o", "w", "n", "-", "d", "e", "r", "i", "v", "e", "r">>

\* PathBuf::push of a relative name
Push(p, name) == p \o S_slash \o name

\* Path::is_absolute
IsAbsolute(p) == StartsWith(p, S_slash)

\* Path::components: the names between the separators
RECURSIVE Components(_)
Components(p) ==
  LET cuts == {i \in DOMAIN p : p[i] = "/"}
      cut == CHOOSE i \in cuts : \A j \in cuts : i <= j
  IN  IF p = <<>> THEN <<>>
      ELSE IF cuts = {} THEN <<p>>
      ELSE IF cut = 1 THEN Components(SubSeq(p, 2, Len(p)))
      ELSE <<SubSeq(p, 1, cut - 1)>> \o Components(SubSeq(p, cut + 1, Len(p)))

\* A suffix test on the text of the path, which Path::ends_with is not
PathEndsWith_Text(p, child) == EndsWith(p, child)

\* Path::ends_with: child's components are the last components of p
PathEndsWith(p, child) ==
  LET a == Components(p)
      b == Components(child)
  IN  /\ Len(b) <= Len(a)
      /\ SubSeq(a, Len(a) - Len(b) + 1, Len(a)) = b
      /\ IsAbsolute(child) => (IsAbsolute(p) /\ Len(a) = Len(b))

\* A file-system node; fs is the sequence of all nodes, in directory order.
\* kind is "dir", "file" or "link" (a symbolic link to target)
Dir(p) == [path |-> p, kind |-> "dir", target |-> <<>>, elf |-> "not_elf", note |-> <<>>]
Link(p, t) == [path |-> p, kind |-> "link", target |-> t, elf |-> "not_elf", note |-> <<>>]
\* elf: "open_error" (the file cannot be opened), "not_elf" (it does not parse),
\* "bad_notes" (its notes do not parse), "no_note" (no build-id note), "note"
\* (a build-id note holding the bytes note)
File(p, elf, note) == [path |-> p, kind |-> "file", target |-> <<>>, elf |-> elf, note |-> note]

NodesAt(fs, p) == {i \in DOMAIN fs : fs[i].path = p}
NodeAt(fs, p) == fs[CHOOSE i \in NodesAt(fs, p) : TRUE]

\* The path metadata() and open() reach: a symbolic link is followed
Resolve(fs, p) ==
  IF NodesAt(fs, p) # {} /\ NodeAt(fs, p).kind = "link" THEN NodeAt(fs, p).target ELSE p

\* tokio::fs::metadata(path).await.is_ok()
Exists(fs, p) == NodesAt(fs, Resolve(fs, p)) # {}

\* Path::is_dir, Path::is_file
IsDir(fs, p) == Exists(fs, p) /\ NodeAt(fs, Resolve(fs, p)).kind = "dir"
IsFile(fs, p) == Exists(fs, p) /\ NodeAt(fs, Resolve(fs, p)).kind = "file"

\* q names an entry of the directory dir
IsChild(q, dir) ==
  /\ StartsWith(q, Push(dir, <<>>))
  /\ Len(q) > Len(dir) + 1
  /\ \A i \in (Len(dir) + 2)..Len(q) : q[i] # "/"

\* std::fs::read_dir(p) on a directory: DirEntry path, file_name and file_type
\* (file_type does not follow a link)
ReadDir(fs, p) ==
  LET real == Resolve(fs, p)
      Inside(n) == IsChild(n.path, real)
      found == SelectSeq(fs, Inside)
  IN  [i \in DOMAIN found |->
        LET name == SubSeq(found[i].path, Len(real) + 2, Len(found[i].path))
        IN  [path |-> Push(p, name), file_name |-> name, file_type |-> found[i].kind]]

\* walkdir::WalkDir::new(root): root and everything below it, links not followed
WalkDir(fs, root) ==
  LET Below(n) == n.path = root \/ StartsWith(n.path, Push(root, <<>>))
  IN  SelectSeq(fs, Below)

HexDigit == <<"0", "1", "2", "3", "4", "5", "6", "7", "8", "9", "a", "b", "c", "d", "e", "f">>

\* base16::encode_lower
RECURSIVE encode_lower(_)
encode_lower(data) ==
  IF data = <<>> THEN <<>>
  ELSE <<HexDigit[(data[1] \div 16) + 1], HexDigit[(data[1] % 16) + 1]>>
       \o encode_lower(Tail(data))

\* anyhow::Result<Option<..>>
Ok(v) == [err |-> FALSE, val |-> v]
Err == [err |-> TRUE, val |-> None]

\* get_buildid: Ok(None) for what is no ELF or has no build-id note
get_buildid(fs, path) ==
  LET real == Resolve(fs, path)
      n == NodeAt(fs, real)
  IN  IF NodesAt(fs, real) = {} \/ n.elf = "open_error" THEN Err
      ELSE IF n.elf = "not_elf" THEN Ok(None)
      ELSE IF n.elf = "bad_notes" THEN Err
      ELSE IF n.elf = "no_note" THEN Ok(None)
      ELSE Ok(Some(encode_lower(n.note)))

\* What one run of nix-store gives: spawned or not, exit status, stdout
ToolRun(spawned, success, stdout) ==
  [spawned |-> spawned, success |-> success, stdout |-> stdout]

\* answers: a sequence of [arg, run]; an argument the store does not know fails
ToolAnswer(answers, arg) ==
  LET hits == {i \in DOMAIN answers : answers[i].arg = arg}
  IN  IF hits = {} THEN ToolRun(TRUE, FALSE, <<>>)
      ELSE answers[CHOOSE i \in hits : \A j \in hits : i <= j].run

\* get_deriver: nix-store --query --deriver storepath
get_deriver(storepath, w) ==
  LET out == ToolAnswer(w.derivers, storepath)
      n == Len(out.stdout)
      path == SubSeq(out.stdout, 1, n - 1)
  IN  IF ~out.spawned THEN Err
      ELSE IF ~out.success THEN Err
      ELSE IF n <= 1 \/ out.stdout[n] # "\n" THEN Err
      ELSE IF ~IsAbsolute(path) THEN Err
      ELSE Ok(path)

\* out.stdout.split(|&elt| elt == b'\n')
RECURSIVE SplitLines(_)
SplitLines(s) ==
  LET cuts == {i \in DOMAIN s : s[i] = "\n"}
      cut == CHOOSE i \in cuts : \A j \in cuts : i <= j
  IN  IF cuts = {} THEN <<s>>
      ELSE <<SubSeq(s, 1, cut - 1)>> \o SplitLines(SubSeq(s, cut + 1, Len(s)))

\* get_debug_output: nix-store --query --outputs drvpath, the first -debug output
get_debug_output(drvpath, w) ==
  LET out == ToolAnswer(w.outputs, drvpath)
      lines == SplitLines(out.stdout)
      hits == {i \in DOMAIN lines : EndsWith(lines[i], S_dash_debug)}
  IN  IF ~out.spawned THEN Err
      ELSE IF ~out.success THEN Err
      ELSE IF hits = {} THEN Ok(None)
      ELSE Ok(Some(lines[CHOOSE i \in hits : \A j \in hits : i <= j]))

\* debuginfo_path_for: buildid[..2] and buildid[2..] panic on a shorter buildid
debuginfo_path_for(buildid, debug_output) ==
  Push(Push(Push(Push(Push(debug_output, S_lib), S_debug), S_build_id),
            SubSeq(buildid, 1, 2)),
       SubSeq(buildid, 3, Len(buildid)) \o S_dot_debug)

SlicePanics(buildid) == Len(buildid) < 2

(***************************************************************************)
(* register_store_path: the scan of one store path.  Its result is what it *)
(* sends on the entry channel, in order, whether it panicked, and how many *)
(* times it ran each nix-store query.                                      *)
(***************************************************************************)
\* The Lazy cells deriver_source and debug_output are None until first forced
ScanStart ==
  [sends |-> <<>>, panicked |-> FALSE, deriver_source |-> None, debug_output |-> None,
   deriver_calls |-> 0, outputs_calls |-> 0]

\* The closure of deriver_source: the pair (deriver, source)
DeriverSource(storepath, w) ==
  LET d == get_deriver(storepath, w)
  IN  IF d.err THEN <<None, None>>
      ELSE IF IsFile(w.fs, d.val) THEN <<Some(d.val), None>>
      ELSE <<None, None>>

\* &*deriver_source
ForceDeriverSource(storepath, w, acc) ==
  IF acc.deriver_source # None THEN acc
  ELSE [acc EXCEPT !.deriver_source = Some(DeriverSource(storepath, w)),
                   !.deriver_calls = @ + 1]

ForceDebugOutput_Again(storepath, w, acc) ==
  LET a == ForceDeriverSource(storepath, w, acc)
      deriver == a.deriver_source[1][1]
      out == get_debug_output(deriver[1], w)
  IN  IF deriver = None THEN [a EXCEPT !.debug_output = Some(None)]
      ELSE [a EXCEPT !.debug_output = Some(IF out.err THEN None ELSE out.val),
                     !.outputs_calls = @ + 1]

\* &*debug_output
ForceDebugOutput(storepath, w, acc) ==
  LET a == ForceDeriverSource(storepath, w, acc)
      deriver == a.deriver_source[1][1]
      out == get_debug_output(deriver[1], w)
  IN  IF acc.debug_output # None THEN acc
      ELSE IF deriver = None THEN [a EXCEPT !.debug_output = Some(None)]
      ELSE [a EXCEPT !.debug_output = Some(IF out.err THEN None ELSE out.val),
                     !.outputs_calls = @ + 1]

\* One entry of the walk of an ordinary output
ScanFile(storepath, w, file, acc) ==
  LET id == get_buildid(w.fs, file.path)
      buildid == id.val[1]
      a == ForceDebugOutput(storepath, w, acc)
      debug_output == a.debug_output[1]
      theoretical == debuginfo_path_for(buildid, debug_output[1])
      debuginfo == IF debug_output = None THEN None
                   ELSE IF IsDir(w.fs, debug_output[1])
                        THEN IF ~IsFile(w.fs, theoretical) THEN None
                             ELSE Some(theoretical)
                        ELSE Some(theoretical)
      source == a.deriver_source[1][2]
  IN  IF file.kind # "file" THEN acc
      ELSE IF id.err \/ id.val = None THEN acc
      ELSE IF debug_output # None /\ SlicePanics(buildid) THEN [a EXCEPT !.panicked = TRUE]
      ELSE [a EXCEPT !.sends = Append(@, Entry(buildid, Some(file.path), debuginfo, source))]

RECURSIVE ScanFiles(_, _, _, _, _)
ScanFiles(storepath, w, files, i, acc) ==
  IF i > Len(files) \/ acc.panicked THEN acc
  ELSE ScanFiles(storepath, w, files, i + 1, ScanFile(storepath, w, files[i], acc))

\* The inner loop of the debug tree: the entries of one name under lib/debug
DebugFile(storepath, w, mid, end, acc) ==
  LET buildid == mid.file_name
                 \o SubSeq(end.file_name, 1, Len(end.file_name) - Len(S_dot_debug))
      a == ForceDeriverSource(storepath, w, acc)
      source == a.deriver_source[1][2]
  IN  IF end.file_type # "file" THEN acc
      ELSE IF ~EndsWith(end.file_name, S_dot_debug) THEN acc
      ELSE [a EXCEPT !.sends = Append(@, Entry(buildid, None, Some(end.path), source))]

RECURSIVE DebugFiles(_, _, _, _, _, _)
DebugFiles(storepath, w, mid, ends, i, acc) ==
  IF i > Len(ends) THEN acc
  ELSE DebugFiles(storepath, w, mid, ends, i + 1,
                  DebugFile(storepath, w, mid, ends[i], acc))

MidSkipped_Files(mid) == mid.file_type # "dir"

\* mid.file_type().map(|x| x.is_dir()).unwrap_or(false): such an entry is skipped
MidSkipped(mid) == mid.file_type = "dir"

\* The outer loop of the debug tree: the entries of lib/debug
DebugMid(storepath, w, mid, acc) ==
  IF MidSkipped(mid) THEN acc
  ELSE IF ~IsDir(w.fs, mid.path) THEN acc
  ELSE DebugFiles(storepath, w, mid, ReadDir(w.fs, mid.path), 1, acc)

RECURSIVE DebugMids(_, _, _, _, _)
DebugMids(storepath, w, mids, i, acc) ==
  IF i > Len(mids) THEN acc
  ELSE DebugMids(storepath, w, mids, i + 1, DebugMid(storepath, w, mids[i], acc))

\* if storepath.ends_with("-debug")
IsDebugOutput(storepath) == PathEndsWith(storepath, S_dash_debug)

register_store_path(storepath, w) ==
  LET root == Push(Push(storepath, S_lib), S_debug)
  IN  IF ~IsDir(w.fs, storepath) THEN ScanStart
      ELSE IF IsDebugOutput(storepath)
           THEN IF ~IsDir(w.fs, root) THEN ScanStart
                ELSE DebugMids(storepath, w, ReadDir(w.fs, root), 1, ScanStart)
           ELSE ScanFiles(storepath, w, WalkDir(w.fs, storepath), 1, ScanStart)

(***************************************************************************)
(* The store the model runs on: the hello package of the scenarios (an     *)
(* output, its debug output, its derivation) and a few other store paths.  *)
(***************************************************************************)
P_hello == Push(S_nix_store, <<"a", "a", "a", "-", "h", "e", "l", "l", "o">>)
P_hello_debug ==
  Push(S_nix_store, <<"b", "b", "b", "-", "h", "e", "l", "l", "o", "-", "d", "e", "b", "u", "g">>)
P_data == Push(S_nix_store, <<"c", "c", "c", "-", "d", "a", "t", "a">>)
P_drv == Push(S_nix_store, <<"d", "d", "d", "-", "h", "e", "l", "l", "o", ".", "d", "r", "v">>)
P_tool_debug ==
  Push(S_nix_store, <<"e", "e", "e", "-", "t", "o", "o", "l", "-", "d", "e", "b", "u", "g">>)
P_odd == Push(S_nix_store, S_dash_debug)

\* The build-id note of hello: the bytes 01 23 ab cd
HelloNote == <<1, 35, 171, 205>>
\* and of the tool whose debug tree is eee-tool-debug: ab cd ef
ToolNote == <<171, 205, 239>>

\* and of the library of hello: ef
LibNote == <<239>>

BuildIdDir(out) == Push(Push(Push(out, S_lib), S_debug), S_build_id)

\* What varies between worlds:
\*   deriver:  what nix-store --query --deriver prints ("drv", "unknown",
\*             "failed", "unterminated")
\*   drv_file: whether the derivation is a regular file of the store
\*   outputs:  what nix-store --query --outputs prints ("both", "plain", "failed")
\*   debug:    the debug output of hello on disk ("full", "no_file", "gone")
\*   hello:    bin/hello ("note", "empty_note", "no_note", "open_error")
WorldOptions ==
  [deriver : {"drv", "unknown", "failed", "unterminated"},
   drv_file : BOOLEAN,
   outputs : {"both", "plain", "failed"},
   debug : {"full", "no_file", "gone"},
   hello : {"note", "empty_note", "no_note", "open_error"}]

WorldFs(o) ==
  <<Dir(P_hello),
    Dir(Push(P_hello, <<"b", "i", "n">>)),
    File(Push(Push(P_hello, <<"b", "i", "n">>), <<"h", "e", "l", "l", "o">>),
         IF o.hello = "empty_note" THEN "note" ELSE o.hello,
         IF o.hello = "note" THEN HelloNote ELSE <<>>),
    Link(Push(Push(P_hello, <<"b", "i", "n">>), <<"h", "i">>),
         Push(Push(P_hello, <<"b", "i", "n">>), <<"h", "e", "l", "l", "o">>)),
    File(Push(P_hello, <<"R", "E", "A", "D", "M", "E">>), "not_elf", <<>>),
    Dir(Push(P_hello, S_lib)),
    File(Push(Push(P_hello, S_lib), <<"l", "i", "b", "h", ".", "s", "o">>), "note", LibNote)>>
  \o (IF o.debug = "gone" THEN <<>>
      ELSE <<Dir(P_hello_debug),
             Dir(Push(P_hello_debug, S_lib)),
             Dir(Push(Push(P_hello_debug, S_lib), S_debug)),
             Dir(BuildIdDir(P_hello_debug)),
             Dir(Push(BuildIdDir(P_hello_debug), <<"0", "1">>))>>)
  \o (IF o.debug # "full" THEN <<>>
      ELSE <<File(Push(Push(BuildIdDir(P_hello_debug), <<"0", "1">>),
                       <<"2", "3", "a", "b", "c", "d">> \o S_dot_debug),
                  "note", HelloNote)>>)
  \o <<File(P_data, "not_elf", <<>>)>>
  \o (IF o.drv_file THEN <<File(P_drv, "not_elf", <<>>)>> ELSE <<>>)
  \o <<Dir(P_tool_debug),
       Dir(Push(P_tool_debug, S_lib)),
       Dir(Push(Push(P_tool_debug, S_lib), S_debug)),
       Dir(Push(Push(Push(P_tool_debug, S_lib), S_debug), <<"a", "b">>)),
       File(Push(Push(Push(Push(P_tool_debug, S_lib), S_debug), <<"a", "b">>),
                 <<"c", "d", "e", "f">> \o S_dot_debug),
            "note", ToolNote),
       Dir(P_odd),
       Dir(Push(P_odd, S_lib)),
       Dir(Push(Push(P_odd, S_lib), S_debug)),
       File(Push(Push(Push(P_odd, S_lib), S_debug), <<"x">>), "not_elf", <<>>),
       Link(Push(Push(Push(P_odd, S_lib), S_debug), <<"0", "1">>),
            Push(BuildIdDir(P_hello_debug), <<"0", "1">>))>>

DeriverRun(o) ==
  CASE o.deriver = "drv" -> ToolRun(TRUE, TRUE, P_drv \o S_newline)
    [] o.deriver = "unknown" -> ToolRun(TRUE, TRUE, S_unknown_deriver \o S_newline)
    [] o.deriver = "unterminated" -> ToolRun(TRUE, TRUE, P_drv)
    [] OTHER -> ToolRun(TRUE, FALSE, <<>>)

OutputsRun(o) ==
  CASE o.outputs = "both" ->
         ToolRun(TRUE, TRUE, P_hello \o S_newline \o P_hello_debug \o S_newline)
    [] o.outputs = "plain" -> ToolRun(TRUE, TRUE, P_hello \o S_newline)
    [] OTHER -> ToolRun(FALSE, FALSE, <<>>)

\* hello and its debug output have the derivation ddd-hello.drv; the store knows
\* no deriver for the other paths
World(o) ==
  [fs |-> WorldFs(o),
   derivers |-> <<[arg |-> P_hello, run |-> DeriverRun(o)],
                  [arg |-> P_hello_debug, run |-> DeriverRun(o)],
                  [arg |-> P_tool_debug,
                   run |-> ToolRun(TRUE, TRUE, S_unknown_deriver \o S_newline)],
                  [arg |-> P_odd,
                   run |-> ToolRun(TRUE, TRUE, S_unknown_deriver \o S_newline)]>>,
   outputs |-> <<[arg |-> P_drv, run |-> OutputsRun(o)]>>]

(***************************************************************************)
(* realise, and the request handlers of the server.                        *)
(***************************************************************************)
\* realise: if metadata(path).await.is_ok() { return Ok(()) }, before the tool
RealiseWithoutTool(exists) == exists

RealiseAfterTool_Status(tool_ok, exists) == tool_ok /\ exists

\* realise: let _ = command.status().await; then Ok iff metadata(path) is ok
RealiseAfterTool(tool_ok, exists) == exists

NeedsRealise_Never(outcome) == FALSE

\* unwrap_file: Ok(Some(p)) is realised before it is opened; Ok(None) and Err(e)
\* are answered with NotFoundError
NeedsRealise(outcome) == outcome = "some"

\* The paths the cache and the source tree hold for the build-id asked for
F_executable == Push(Push(P_hello, <<"b", "i", "n">>), <<"h", "e", "l", "l", "o">>)
F_debuginfo ==
  Push(Push(BuildIdDir(P_hello_debug), <<"0", "1">>),
       <<"2", "3", "a", "b", "c", "d">> \o S_dot_debug)
F_source == P_drv
F_source_file == Push(P_drv, <<"m", "a", "i", "n", ".", "c">>)

ServedPaths == {F_executable, F_debuginfo, F_source, F_source_file}

\* What the cache holds for each kind of request when it holds something
CachedPath(kind) ==
  CASE kind = "debuginfo" -> F_debuginfo
    [] kind = "executable" -> F_executable
    [] OTHER -> F_source

(***************************************************************************)
(* The specifications of single operations leave the pipeline off.         *)
(***************************************************************************)
pipeline ==
  <<store_db, world, cache_rows, cache_timestamp, from_timestamp, poller, path_ch,
    pool_queue, jobs, done_ch, entry_ch, hist, crashes>>

others == <<bq, cc, sc, srv, ld>>

vars == <<pipeline, others>>

PipelineOff ==
  /\ store_db = <<>> /\ world = None /\ cache_rows = None /\ cache_timestamp = 0
  /\ from_timestamp = 0 /\ poller = None /\ path_ch = <<>> /\ pool_queue = <<>>
  /\ jobs = {} /\ done_ch = 0 /\ entry_ch = <<>> /\ hist = None
  /\ crashes = 0

(***************************************************************************)
(* SpecBatch: get_new_store_path_batch on databases with about BatchLimit  *)
(* rows per registration time.                                             *)
(***************************************************************************)
MaxBatchTime == 3

\* A valid store path for the k-th row registered at time t
BatchPath(t, k) == S_nix_store \o S_slash \o Decimal(t) \o <<"-">> \o Decimal(k)

\* The numbers of rows sharing one registration time
RowCounts == {0, 1, BatchLimit - 1, BatchLimit + 1}

\* Table order is newest first, so that the query's own ordering matters
RECURSIVE BatchDb(_, _)
BatchDb(cnt, t) ==
  IF t > MaxBatchTime THEN <<>>
  ELSE BatchDb(cnt, t + 1) \o [k \in 1..cnt[t] |-> Row(BatchPath(t, k), t)]

InitBatch ==
  /\ \E cnt \in [0..MaxBatchTime -> RowCounts], lo \in 0..(MaxBatchTime + 1) :
       bq = [pc |-> "call", db |-> BatchDb(cnt, 0), from_timestamp |-> lo,
             dbOk |-> TRUE, res |-> BatchErr]
  /\ cc = None
  /\ sc = None
  /\ srv = None
  /\ ld = None
  /\ PipelineOff

BatchCall ==
  /\ bq.pc = "call"
  /\ bq' = [bq EXCEPT !.pc = "returned",
                      !.res = get_new_store_path_batch(bq.from_timestamp, bq.db, TRUE)]
  /\ UNCHANGED <<cc, sc, srv, ld, pipeline>>

BatchCallDbError ==
  /\ bq.pc = "call"
  /\ bq' = [bq EXCEPT !.pc = "returned", !.dbOk = FALSE,
                      !.res = get_new_store_path_batch(bq.from_timestamp, bq.db, FALSE)]
  /\ UNCHANGED <<cc, sc, srv, ld, pipeline>>

NextBatch == BatchCall \/ BatchCallDbError

\* The rows registered at or after lo, as indices of the table
Qualifying(db, lo) == {i \in DOMAIN db : db[i].registrationTime >= lo}

\* The k-th smallest registration time >= lo (the largest when fewer than k rows
\* qualify): the least qualifying time with at least k qualifying rows at or below it
KthTime(db, lo, k) ==
  LET q == Qualifying(db, lo)
      ts == {db[i].registrationTime : i \in q}
      AtOrBelow(t) == {i \in q : db[i].registrationTime <= t}
      enough == {t \in ts : Cardinality(AtOrBelow(t)) >= k}
  IN  IF enough = {} THEN CHOOSE t \in ts : \A u \in ts : u <= t
      ELSE CHOOSE t \in enough : \A u \in enough : t <= u

\* The rows a batch queried with lo is to hold
ExpectedBatch(db, lo) ==
  LET q == Qualifying(db, lo)
      hi == KthTime(db, lo, BatchLimit)
  IN  IF q = {} THEN {} ELSE {i \in q : db[i].registrationTime <= hi}

BatchIsExpected ==
  LET want == ExpectedBatch(bq.db, bq.from_timestamp)
      times == {bq.db[i].registrationTime : i \in want}
  IN  /\ Range(bq.res.paths) = {bq.db[i].path : i \in want}
      /\ Len(bq.res.paths) = Cardinality(want)
      /\ want # {} => \E t \in times : /\ \A u \in times : u <= t
                                       /\ bq.res.time = t + 1

\* C10 (as amended): a successful batch query returns exactly the paths whose
\* registration timestamp is >= lo and <= the 100th smallest timestamp >= lo,
\* together with new_lo = (largest timestamp in the batch) + 1; fewer than 100 of
\* the returned paths are older than that largest timestamp, but the paths sharing
\* it are all returned, so the batch may exceed 100 paths.
C10_BatchContents ==
  (bq.pc = "returned" /\ bq.res.ok) =>
    /\ BatchIsExpected
    /\ Cardinality({i \in ExpectedBatch(bq.db, bq.from_timestamp) :
                      bq.db[i].registrationTime + 1 < bq.res.time}) < BatchLimit

\* C10 (as claimed): the same batch, and at most 100 store paths in it
C10_AtMostHundred ==
  (bq.pc = "returned" /\ bq.res.ok) =>
    /\ BatchIsExpected
    /\ Len(bq.res.paths) <= BatchLimit

\* C10 witness: a successful query, issued above the oldest rows, whose batch ends
\* at a timestamp shared by rows beyond the 100th
C10_Witness ==
  /\ bq.pc = "returned" /\ bq.res.ok
  /\ bq.from_timestamp > 0
  /\ Qualifying(bq.db, bq.from_timestamp) # DOMAIN bq.db
  /\ Len(bq.res.paths) > BatchLimit
  /\ Len(bq.res.paths) < Cardinality(Qualifying(bq.db, bq.from_timestamp))


\* The condition (max_time == 0) XOR paths.is_empty() on rows read
XorCondition(rows) ==
  LET times == {rows[i].registrationTime : i \in DOMAIN rows} \cup {0}
      max_time == CHOOSE t \in times : \A u \in times : u <= t
  IN  (max_time = 0) # (rows = <<>>)

\* C15 as stated: when the database is read without error,
\* get_new_store_path_batch reports an error exactly when
\* (max_time == 0) XOR paths.is_empty() does not hold for the rows it read.
C15_ErrorUnlessXor ==
  (bq.pc = "returned" /\ bq.dbOk) =>
    (~bq.res.ok <=> ~XorCondition(SelectRows(bq.db, bq.from_timestamp)))

\* C15, amended: when the database is read without error,
\* get_new_store_path_batch reports an error exactly when
\* (max_time == 0) XOR paths.is_empty() holds for the rows it read, that is
\* when it read rows whose registration times are all 0.
C15_ErrorWhenXor ==
  (bq.pc = "returned" /\ bq.dbOk) =>
    LET rows == SelectRows(bq.db, bq.from_timestamp)
    IN  /\ ~bq.res.ok <=> XorCondition(rows)
        /\ XorCondition(rows) <=>
              (rows # <<>> /\ \A i \in DOMAIN rows : rows[i].registrationTime = 0)

C15_Witness ==
  /\ bq.pc = "returned" /\ bq.dbOk /\ ~bq.res.ok
  /\ Len(SelectRows(bq.db, bq.from_timestamp)) > BatchLimit
  /\ Len(bq.db) > Len(SelectRows(bq.db, bq.from_timestamp))
(***************************************************************************)
(* SpecCache: any sequence of at most MaxRegisterCalls register calls.     *)
(***************************************************************************)
MaxRegisterCalls == 3

S_0123abcd == <<"0", "1", "2", "3", "a", "b", "c", "d">>
S_deadbeef == <<"d", "e", "a", "d", "b", "e", "e", "f">>

CacheBuildIds == {S_0123abcd, S_deadbeef}
CacheExecutables == {None, Some(<<"/", "x">>), Some(<<"/", "y">>)}
CacheDebuginfos == {None, Some(<<"/", "d">>)}
CacheSources == {None, Some(<<"/", "s">>)}

InitCache ==
  /\ cc = [rows |-> EmptyCache, calls |-> <<>>]
  /\ bq = None
  /\ sc = None
  /\ srv = None
  /\ ld = None
  /\ PipelineOff

RegisterCall ==
  /\ Len(cc.calls) < MaxRegisterCalls
  /\ \E b \in CacheBuildIds, e \in CacheExecutables, d \in CacheDebuginfos,
        s \in CacheSources :
       cc' = [rows |-> Register(cc.rows, Entry(b, e, d, s)),
              calls |-> Append(cc.calls, Entry(b, e, d, s))]
  /\ UNCHANGED <<bq, sc, srv, ld, pipeline>>

NextCache == RegisterCall

\* The last non-null value the calls supplied for a field of a build-id
LastSupplied(calls, b, f) ==
  LET given == {i \in DOMAIN calls : calls[i].buildid = b /\ calls[i][f] # None}
  IN  IF given = {} THEN None
      ELSE calls[CHOOSE i \in given : \A j \in given : j <= i][f]

\* C8: after any sequence of register calls, each field of each build-id holds the
\* last non-null value supplied for it; a build-id no call named has no row.
C8_LastNonNullWins ==
  /\ DOMAIN cc.rows = {cc.calls[i].buildid : i \in DOMAIN cc.calls}
  /\ \A b \in CacheBuildIds, f \in EntryFields :
       Lookup(cc.rows, b, f) = LastSupplied(cc.calls, b, f)

\* C8 witness: an executable-only entry registered after a debuginfo-only entry of
\* the same build-id (whose later null must not erase the debuginfo), the row
\* holding both
C8_Witness ==
  /\ Len(cc.calls) = 2
  /\ cc.calls[1] = Entry(S_0123abcd, None, Some(<<"/", "d">>), None)
  /\ cc.calls[2] = Entry(S_0123abcd, Some(<<"/", "x">>), None, None)
  /\ Lookup(cc.rows, S_0123abcd, "debuginfo") = Some(<<"/", "d">>)
  /\ Lookup(cc.rows, S_0123abcd, "executable") = Some(<<"/", "x">>)

(***************************************************************************)
(* SpecScan: register_store_path on each store path of each world.         *)
(***************************************************************************)
ScanPaths == {P_hello, P_hello_debug, P_tool_debug, P_odd, P_data}

InitScan ==
  /\ \E p \in ScanPaths, o \in WorldOptions :
       sc = [pc |-> "call", storepath |-> p, world |-> o, res |-> ScanStart]
  /\ bq = None
  /\ cc = None
  /\ srv = None
  /\ ld = None
  /\ PipelineOff

ScanCall ==
  /\ sc.pc = "call"
  /\ sc' = [sc EXCEPT !.pc = "returned",
                      !.res = register_store_path(sc.storepath, World(sc.world))]
  /\ UNCHANGED <<bq, cc, srv, ld, pipeline>>

NextScan == ScanCall

\* The files <yyyy>.debug in the subdirectories <xx> of the directory root, as
\* pairs of the two paths
DebugTreeFiles(fs, root) ==
  {pair \in {<<fs[i].path, fs[j].path>> : i \in DOMAIN fs, j \in DOMAIN fs} :
     /\ IsChild(pair[1], root) /\ NodeAt(fs, pair[1]).kind = "dir"
     /\ IsChild(pair[2], pair[1]) /\ NodeAt(fs, pair[2]).kind = "file"
     /\ EndsWith(pair[2], S_dot_debug)}

\* The entry the scan of a debug tree is to emit for the file at path in the
\* subdirectory xx of root: the build-id is the name of xx and the stem of the file
DebugTreeEntry(root, xx, path) ==
  [buildid |-> SubSeq(xx, Len(root) + 2, Len(xx))
               \o SubSeq(path, Len(xx) + 2, Len(path) - Len(S_dot_debug)),
   executable |-> None,
   debuginfo |-> Some(path)]

\* C9: the scan of a store path whose name ends in -debug emits, for each file
\* <yyyy>.debug in a subdirectory <xx> of its debug root, an entry with
\* buildid = xx ++ yyyy, debuginfo = the path of the file and no executable, and
\* it emits no entry whose executable is set.
C9_DebugTreeScan ==
  (sc.pc = "returned" /\ EndsWith(sc.storepath, S_dash_debug)) =>
    LET fs == World(sc.world).fs
        root == Push(Push(sc.storepath, S_lib), S_debug)
        sent == {[f \in {"buildid", "executable", "debuginfo"} |-> sc.res.sends[i][f]] :
                   i \in DOMAIN sc.res.sends}
    IN  /\ \A e \in sent : e.executable = None
        /\ \A pair \in DebugTreeFiles(fs, root) :
             DebugTreeEntry(root, pair[1], pair[2]) \in sent


\* C11: when the deriver of the scanned path is obtained, is absolute and is a
\* regular file, every entry of the scan has source = the deriver; otherwise
\* every entry has source = None.
C11_SourceIsDeriver ==
  sc.pc = "returned" =>
    LET w == World(sc.world)
        d == get_deriver(sc.storepath, w)
        source == IF ~d.err /\ IsAbsolute(d.val) /\ IsFile(w.fs, d.val)
                  THEN Some(d.val) ELSE None
    IN  \A i \in DOMAIN sc.res.sends : sc.res.sends[i].source = source

\* The debug output the store tool names for the deriver of storepath, if any
KnownDebugOutput(storepath, w) ==
  LET d == get_deriver(storepath, w)
      out == get_debug_output(d.val, w)
  IN  IF d.err \/ ~IsFile(w.fs, d.val) THEN None
      ELSE IF out.err THEN None ELSE out.val

\* The regular files with a build-id below storepath
FilesWithBuildId(storepath, fs) ==
  {i \in DOMAIN fs :
     /\ fs[i].kind = "file"
     /\ StartsWith(fs[i].path, Push(storepath, <<>>))
     /\ ~get_buildid(fs, fs[i].path).err
     /\ get_buildid(fs, fs[i].path).val # None}

\* C12: the scan of an ordinary output emits, for every regular file with a
\* build-id b, an entry with executable = the file and debuginfo = None when no
\* debug output is known, the predicted path when the debug output is not on
\* disk or the predicted file exists, None when the debug output is on disk
\* without that file; the other files give no entry and do not stop the scan.
C12_OrdinaryScan ==
  (sc.pc = "returned" /\ ~EndsWith(sc.storepath, S_dash_debug)) =>
    LET w == World(sc.world)
        out == KnownDebugOutput(sc.storepath, w)
        Expected(i) ==
          LET b == get_buildid(w.fs, w.fs[i].path).val[1]
              predicted ==
                Push(Push(BuildIdDir(out[1]), SubSeq(b, 1, Min(2, Len(b)))),
                     SubSeq(b, 3, Len(b)) \o S_dot_debug)
          IN  [buildid |-> b,
               executable |-> Some(w.fs[i].path),
               debuginfo |-> IF out = None THEN None
                             ELSE IF ~IsDir(w.fs, out[1]) THEN Some(predicted)
                             ELSE IF IsFile(w.fs, predicted) THEN Some(predicted)
                             ELSE None]
        sent == {[f \in {"buildid", "executable", "debuginfo"} |-> sc.res.sends[i][f]] :
                   i \in DOMAIN sc.res.sends}
    IN  sent = {Expected(i) : i \in FilesWithBuildId(sc.storepath, w.fs)}

\* The files a scan looks for: the regular files with a build-id that the walk
\* of storepath meets, and the files *.debug in the directories of lib/debug
CandidateFiles(storepath, fs) ==
  LET walk == WalkDir(fs, storepath)
      root == Push(Push(storepath, S_lib), S_debug)
      mids == ReadDir(fs, root)
      Ends(m) == ReadDir(fs, mids[m].path)
  IN  {walk[i].path : i \in {k \in DOMAIN walk :
                               /\ walk[k].kind = "file"
                               /\ ~get_buildid(fs, walk[k].path).err
                               /\ get_buildid(fs, walk[k].path).val # None}}
      \cup UNION {{Ends(m)[j].path : j \in {k \in DOMAIN Ends(m) :
                                             /\ Ends(m)[k].file_type = "file"
                                             /\ EndsWith(Ends(m)[k].file_name, S_dot_debug)}} :
                  m \in DOMAIN mids}

InitServer ==
  /\ \E kind \in {"debuginfo", "executable", "source"}, disk \in SUBSET ServedPaths :
       srv = [pc |-> "lookup", kind |-> kind, disk |-> disk, lookup |-> "pending",
              stage |-> "file", path |-> <<>>, stat1 |-> FALSE, tool_ok |-> FALSE,
              log |-> <<>>, opened |-> None, status |-> "pending"]
  /\ bq = None
  /\ cc = None
  /\ sc = None
  /\ ld = None
  /\ PipelineOff

NotFound == [srv EXCEPT !.pc = "done", !.status = "NOT_FOUND"]

\* cache.get_debuginfo / get_executable / get_source, then the match on its result
SrvLookup ==
  /\ srv.pc = "lookup"
  /\ \E outcome \in {"err", "none", "some"} :
       srv' = IF NeedsRealise(outcome)
              THEN [srv EXCEPT !.pc = "stat", !.lookup = outcome,
                               !.stage = IF srv.kind = "source" THEN "source" ELSE "file",
                               !.path = CachedPath(srv.kind)]
              ELSE [NotFound EXCEPT !.lookup = outcome]
  /\ UNCHANGED <<bq, cc, sc, ld, pipeline>>

\* realise returned: the call is logged; a failure is answered 404, a success
\* goes on to the source tree (fetch_and_get_source) or to NamedFile::open
Realised(stat1, tool_ran, last_stat, ok) ==
  LET call == [path |-> srv.path, stat1 |-> stat1, tool_ran |-> tool_ran,
               tool_ok |-> srv.tool_ok, last_stat |-> last_stat, ok |-> ok]
      next == IF ~ok THEN NotFound
              ELSE [srv EXCEPT !.pc = IF srv.stage = "source" THEN "resolve" ELSE "open"]
  IN  [next EXCEPT !.log = Append(srv.log, call)]

\* realise: the first metadata(path)
SrvStat ==
  /\ srv.pc = "stat"
  /\ LET exists == srv.path \in srv.disk
     IN  srv' = IF RealiseWithoutTool(exists)
                THEN Realised(exists, FALSE, exists, TRUE)
                ELSE [srv EXCEPT !.pc = "tool", !.stat1 = exists]
  /\ UNCHANGED <<bq, cc, sc, ld, pipeline>>

\* realise: nix-store --realise path, which may or may not produce the path
SrvTool ==
  /\ srv.pc = "tool"
  /\ \E tool_ok \in BOOLEAN, produced \in BOOLEAN :
       srv' = [srv EXCEPT !.pc = "restat", !.tool_ok = tool_ok,
                          !.disk = IF produced THEN @ \cup {srv.path} ELSE @]
  /\ UNCHANGED <<bq, cc, sc, ld, pipeline>>

\* realise: the second metadata(path)
SrvRestat ==
  /\ srv.pc = "restat"
  /\ LET exists == srv.path \in srv.disk
     IN  srv' = Realised(srv.stat1, TRUE, exists, RealiseAfterTool(srv.tool_ok, exists))
  /\ UNCHANGED <<bq, cc, sc, ld, pipeline>>

\* fetch_and_get_source: get_file_for_source(source, request) on a blocking thread
SrvResolve ==
  /\ srv.pc = "resolve"
  /\ \E outcome \in {"err", "none", "some"} :
       srv' = IF NeedsRealise(outcome)
              THEN [srv EXCEPT !.pc = "stat", !.stage = "file", !.path = F_source_file]
              ELSE NotFound
  /\ UNCHANGED <<bq, cc, sc, ld, pipeline>>

\* unwrap_file: Ok(NamedFile::open(p)); a file that is gone by now is an
\* io::Error of kind NotFound
SrvOpen ==
  /\ srv.pc = "open"
  /\ srv' = [srv EXCEPT !.pc = "done", !.opened = Some(srv.path),
                        !.status = IF srv.path \in srv.disk THEN "OK" ELSE "NOT_FOUND"]
  /\ UNCHANGED <<bq, cc, sc, ld, pipeline>>

\* The store's garbage collector deletes a path while the request runs
StoreGc ==
  /\ srv.pc # "done"
  /\ \E p \in srv.disk : srv' = [srv EXCEPT !.disk = @ \ {p}]
  /\ UNCHANGED <<bq, cc, sc, ld, pipeline>>

NextServer ==
  SrvLookup \/ SrvStat \/ SrvTool \/ SrvRestat \/ SrvResolve \/ SrvOpen \/ StoreGc

\* C7: a request is answered 404 whenever the cache lookup returned no path or an
\* error, or a realise failed; a file is opened only after realise succeeded for
\* that very path in the same request; and realise succeeds exactly when the path
\* exists at its last stat: it does not run the tool when the first stat finds the
\* path, and the tool's exit status does not count.
C7_NotFoundAndRealise ==
  LET calls == {srv.log[i] : i \in DOMAIN srv.log}
  IN  /\ (srv.pc = "done" /\ (srv.lookup \in {"err", "none"} \/ \E c \in calls : ~c.ok))
           => srv.status = "NOT_FOUND"
      /\ srv.opened # None => \E c \in calls : c.path = srv.opened[1] /\ c.ok
      /\ \A c \in calls : /\ c.ok <=> c.last_stat
                          /\ c.tool_ran <=> ~c.stat1

\* C7 witness: a source request whose source was realised by the tool although
\* the tool reported failure, and whose file could not be realised although the
\* tool reported success: it is answered 404 and nothing was opened
C7_Witness ==
  /\ srv.pc = "done" /\ srv.kind = "source" /\ Len(srv.log) = 2
  /\ srv.log[1].tool_ran /\ ~srv.log[1].tool_ok /\ srv.log[1].ok
  /\ srv.log[2].tool_ran /\ srv.log[2].tool_ok /\ ~srv.log[2].ok
  /\ srv.status = "NOT_FOUND" /\ srv.opened = None

(***************************************************************************)
(* Spec: the pipeline of spawn_store_watcher, with an external nix that    *)
(* registers store paths, and crashes of the process followed by restarts. *)
(*                                                                         *)
(*   store_db         the table ValidPaths of the nix database             *)
(*   world            the store on disk and the answers of nix-store       *)
(*   cache_rows       the entries of the cache (persistent)                *)
(*   cache_timestamp  the registration timestamp of the cache (persistent) *)
(*   from_timestamp   the poller's local from_timestamp                    *)
(*   poller           the polling task: pc is "load", "poll", "sleep",     *)
(*                    "send", "await", "commit" or "dead"; paths are the   *)
(*                    paths still to send, n and time the batch            *)
(*   path_ch          path_sender -> path_receiver                         *)
(*   pool_queue       the jobs the thread pool has not started             *)
(*   jobs             the jobs running on the pool's threads               *)
(*   done_ch          path_done_sender -> path_done_receiver, a count of ()*)
(*   entry_ch         entry_sender -> entry_receiver                       *)
(*   hist             history, for the properties only                     *)
(*   crashes          the number of crashes so far                         *)
(***************************************************************************)
\* threadpool::ThreadPool::new(8)
PoolSize == 8

\* tokio::sync::mpsc::channel(200)
ChanCap == 200

MaxTime == 2
MaxCrashes == 2

\* The store paths nix may register
StorePaths == {P_hello, P_data}

\* The worlds of the pipeline: hello as in the scenarios, or with an empty
\* build-id note
PipelineWorlds ==
  {[deriver |-> "drv", drv_file |-> TRUE, outputs |-> "both", debug |-> "full",
    hello |-> h] : h \in {"note", "empty_note"}}

\* What a read of a row that nix is writing may return instead of its path
TornPaths ==
  {SubSeq(P_hello, 1, Len(S_nix_store) - 1),
   Push(P_hello, <<"b", "i", "n">>)}

NoTear == [i |-> 0, path |-> <<>>]

\* The table as a read sees it when row tear.i is torn
ReadDb(db, tear) ==
  [k \in DOMAIN db |-> IF k = tear.i THEN [db[k] EXCEPT !.path = tear.path] ELSE db[k]]

Idle(pc) ==
  [pc |-> pc, paths |-> <<>>, batch |-> <<>>, n |-> 0, time |-> 0, got |-> 0,
   lo |-> 0, tear |-> NoTear, ok |-> TRUE, sleep |-> 0]

NoHistory ==
  [count |-> [p \in StorePaths |-> 0], now |-> {}, earlier |-> {},
   polls |-> {}, set_args |-> <<>>, set_failed |-> FALSE, register_failed |-> FALSE,
   registered |-> {}]

\* The largest registration time among the rows of the paths of a batch
BatchMaxTime(db, batch) ==
  LET times == {db[i].registrationTime : i \in {k \in DOMAIN db : db[k].path \in Range(batch)}}
  IN  CHOOSE t \in times : \A u \in times : u <= t

Init ==
  /\ store_db = <<>>
  /\ world \in PipelineWorlds
  /\ cache_rows = EmptyCache
  /\ cache_timestamp = 0
  /\ from_timestamp = 0
  /\ poller = Idle("load")
  /\ path_ch = <<>>
  /\ pool_queue = <<>>
  /\ jobs = {}
  /\ done_ch = 0
  /\ entry_ch = <<>>
  /\ hist = NoHistory
  /\ crashes = 0
  /\ bq = None /\ cc = None /\ sc = None /\ srv = None /\ ld = None

\* nix registers a store path, stamped with the current time
StoreRegister ==
  /\ \E p \in StorePaths \ {store_db[i].path : i \in DOMAIN store_db},
        t \in 1..MaxTime :
       /\ \A i \in DOMAIN store_db : store_db[i].registrationTime <= t
       /\ store_db' = Append(store_db, Row(p, t))
  /\ UNCHANGED <<world, cache_rows, cache_timestamp, from_timestamp, poller, path_ch,
                 pool_queue, jobs, done_ch, entry_ch, hist, crashes, others>>

\* let mut from_timestamp = cache.get_registration_timestamp().await.expect(..)
PollerLoad ==
  /\ poller.pc = "load"
  /\ \E ok \in BOOLEAN :
       /\ poller' = Idle(IF ok THEN "poll" ELSE "dead")
       /\ from_timestamp' = IF ok THEN cache_timestamp ELSE from_timestamp
  /\ UNCHANGED <<store_db, world, cache_rows, cache_timestamp, path_ch, pool_queue,
                 jobs, done_ch, entry_ch, hist, crashes, others>>

PollArm_NoEmpty(res) == IF ~res.ok THEN "Err" ELSE "batch"

\* The arm of match get_new_store_path_batch(from_timestamp).await
PollArm(res) ==
  IF ~res.ok THEN "Err" ELSE IF res.paths = <<>> THEN "empty" ELSE "batch"

\* match get_new_store_path_batch(from_timestamp).await: an error sleeps 1 s, an
\* empty batch sleeps 60 s, a batch is sent
PollerPoll ==
  /\ poller.pc = "poll"
  /\ \E dbOk \in BOOLEAN, tear \in {NoTear} \cup
                                   [i : DOMAIN store_db, path : TornPaths] :
       LET res == get_new_store_path_batch(from_timestamp, ReadDb(store_db, tear), dbOk)
           seen == [Idle("sleep") EXCEPT !.lo = from_timestamp, !.tear = tear,
                                         !.ok = res.ok]
       IN  /\ ~dbOk => tear = NoTear
           /\ poller' =
                IF PollArm(res) = "Err" THEN [seen EXCEPT !.sleep = 1]
                ELSE IF PollArm(res) = "empty" THEN [seen EXCEPT !.sleep = 60]
                ELSE [seen EXCEPT !.pc = "send", !.paths = res.paths,
                                  !.batch = res.paths, !.n = Len(res.paths),
                                  !.time = res.time]
           /\ hist' = [hist EXCEPT !.polls = @ \cup
                         IF PollArm(res) = "Err" THEN {"error"}
                         ELSE IF PollArm(res) = "empty" THEN {"empty"} ELSE {}]
  /\ UNCHANGED <<store_db, world, cache_rows, cache_timestamp, from_timestamp, path_ch,
                 pool_queue, jobs, done_ch, entry_ch, crashes, others>>

\* tokio::time::sleep(..).await is over
PollerWake ==
  /\ poller.pc = "sleep"
  /\ poller' = Idle("poll")
  /\ UNCHANGED <<store_db, world, cache_rows, cache_timestamp, from_timestamp, path_ch,
                 pool_queue, jobs, done_ch, entry_ch, hist, crashes, others>>

HasCapacity_Always(len) == TRUE

\* A send on a channel of capacity 200 goes through when the channel holds
\* fewer messages, and waits otherwise
HasCapacity(len) == len < ChanCap

ThreadFree_Always(running) == TRUE

\* A pool of 8 threads starts a job when fewer jobs are running
ThreadFree(running) == running < PoolSize

BarrierPassed_OneShort(got, n) == got + 1 >= n

\* for _ in 0..n { path_done_receiver.recv().await; } is over
BarrierPassed(got, n) == got = n

\* for path in paths { path_sender.send(path).await }
PollerSend ==
  /\ poller.pc = "send"
  /\ HasCapacity(Len(path_ch))
  /\ LET path == Head(poller.paths)
         sent == [poller EXCEPT !.paths = Tail(@)]
     IN  /\ path_ch' = Append(path_ch, path)
         /\ poller' = IF sent.paths # <<>> THEN sent
                      ELSE [sent EXCEPT !.pc = IF BarrierPassed(0, sent.n)
                                               THEN "commit" ELSE "await"]
         /\ hist' = [hist EXCEPT !.count[path] = @ + 1,
                                 !.now = @ \cup {<<path, poller.lo>>}]
  /\ UNCHANGED <<store_db, world, cache_rows, cache_timestamp, from_timestamp,
                 pool_queue, jobs, done_ch, entry_ch, crashes, others>>

\* One path_done_receiver.recv().await of the barrier
PollerRecv ==
  /\ poller.pc = "await"
  /\ done_ch > 0
  /\ done_ch' = done_ch - 1
  /\ poller' = [poller EXCEPT !.got = @ + 1,
                              !.pc = IF BarrierPassed(poller.got + 1, poller.n)
                                     THEN "commit" ELSE "await"]
  /\ UNCHANGED <<store_db, world, cache_rows, cache_timestamp, from_timestamp, path_ch,
                 pool_queue, jobs, entry_ch, hist, crashes, others>>

\* cache.set_registration_timestamp(time).await, whose failure is logged, then
\* from_timestamp = time
PollerCommit ==
  /\ poller.pc = "commit"
  /\ \E ok \in BOOLEAN :
       /\ cache_timestamp' = IF ok THEN poller.time ELSE cache_timestamp
       /\ hist' = [hist EXCEPT
                     !.set_args = Append(@, [lo |-> poller.lo, time |-> poller.time,
                                             max |-> BatchMaxTime(store_db, poller.batch)]),
                     !.set_failed = @ \/ ~ok]
  /\ from_timestamp' = poller.time
  /\ poller' = Idle("poll")
  /\ UNCHANGED <<store_db, world, cache_rows, path_ch, pool_queue, jobs, done_ch,
                 entry_ch, crashes, others>>

\* The dispatcher thread: path_receiver.blocking_recv(), threadpool.execute(..)
Dispatch ==
  /\ path_ch # <<>>
  /\ path_ch' = Tail(path_ch)
  /\ pool_queue' = Append(pool_queue, Head(path_ch))
  /\ UNCHANGED <<store_db, world, cache_rows, cache_timestamp, from_timestamp, poller,
                 jobs, done_ch, entry_ch, hist, crashes, others>>

\* A free thread of the pool takes the next job and runs register_store_path up
\* to its first blocking_send
JobStart ==
  /\ pool_queue # <<>>
  /\ ThreadFree(Cardinality(jobs))
  /\ LET scan == register_store_path(Head(pool_queue), World(world))
     IN  jobs' = jobs \cup {[path |-> Head(pool_queue), sends |-> scan.sends,
                             panicked |-> scan.panicked]}
  /\ pool_queue' = Tail(pool_queue)
  /\ UNCHANGED <<store_db, world, cache_rows, cache_timestamp, from_timestamp, poller,
                 path_ch, done_ch, entry_ch, hist, crashes, others>>

\* sendto.blocking_send(entry)
JobSend ==
  /\ HasCapacity(Len(entry_ch))
  /\ \E job \in jobs :
       /\ job.sends # <<>>
       /\ entry_ch' = Append(entry_ch, [entry |-> Head(job.sends), path |-> job.path])
       /\ jobs' = (jobs \ {job}) \cup {[job EXCEPT !.sends = Tail(@)]}
  /\ UNCHANGED <<store_db, world, cache_rows, cache_timestamp, from_timestamp, poller,
                 path_ch, pool_queue, done_ch, hist, crashes, others>>

\* register_store_path returned: path_done_sender_moved.blocking_send(())
JobDone ==
  /\ HasCapacity(done_ch)
  /\ \E job \in jobs :
       /\ job.sends = <<>> /\ ~job.panicked
       /\ jobs' = jobs \ {job}
  /\ done_ch' = done_ch + 1
  /\ UNCHANGED <<store_db, world, cache_rows, cache_timestamp, from_timestamp, poller,
                 path_ch, pool_queue, entry_ch, hist, crashes, others>>

\* register_store_path panicked: the job unwinds, nothing is sent on the done
\* channel, and the pool replaces the thread
JobPanic ==
  /\ \E job \in jobs :
       /\ job.sends = <<>> /\ job.panicked
       /\ jobs' = jobs \ {job}
  /\ UNCHANGED <<store_db, world, cache_rows, cache_timestamp, from_timestamp, poller,
                 path_ch, pool_queue, done_ch, entry_ch, hist, crashes, others>>

\* The registering task: entry_receiver.recv().await, then
\* cache.register(&entry).await, whose failure is logged
WriterRegister ==
  /\ entry_ch # <<>>
  /\ \E ok \in BOOLEAN :
       /\ cache_rows' = IF ok THEN Register(cache_rows, Head(entry_ch).entry)
                        ELSE cache_rows
       /\ hist' = [hist EXCEPT !.registered = @ \cup {Head(entry_ch)},
                               !.register_failed = @ \/ ~ok]
  /\ entry_ch' = Tail(entry_ch)
  /\ UNCHANGED <<store_db, world, cache_timestamp, from_timestamp, poller, path_ch,
                 pool_queue, jobs, done_ch, crashes, others>>

\* The process dies and is started again: the cache is all that is left
Crash ==
  /\ crashes < MaxCrashes
  /\ crashes' = crashes + 1
  /\ from_timestamp' = 0
  /\ poller' = Idle("load")
  /\ path_ch' = <<>>
  /\ pool_queue' = <<>>
  /\ jobs' = {}
  /\ done_ch' = 0
  /\ entry_ch' = <<>>
  /\ hist' = [NoHistory EXCEPT !.earlier = hist.earlier \cup hist.now,
                               !.set_failed = hist.set_failed,
                               !.register_failed = hist.register_failed]
  /\ UNCHANGED <<store_db, world, cache_rows, cache_timestamp, others>>

Next ==
  \/ StoreRegister
  \/ PollerLoad \/ PollerPoll \/ PollerWake \/ PollerSend \/ PollerRecv \/ PollerCommit
  \/ Dispatch \/ JobStart \/ JobSend \/ JobDone \/ JobPanic
  \/ WriterRegister
  \/ Crash

(***************************************************************************)
(* Properties of the pipeline.                                             *)
(***************************************************************************)
\* The entries the scan of a store path puts on the entry channel
Emitted(path) ==
  LET sends == register_store_path(path, World(world)).sends
  IN  {[entry |-> sends[i], path |-> path] : i \in DOMAIN sends}

BatchPaths == Range(poller.batch)

\* C1: when set_registration_timestamp is called for a batch, cache.register has
\* been called for every entry the scans of the paths of that batch emitted, so
\* that no entry of the batch still waits in entry_ch.
C1_RegisteredBeforeCommit ==
  poller.pc = "commit" =>
    \A p \in BatchPaths : Emitted(p) \subseteq hist.registered

\* C2: when set_registration_timestamp is called for a batch of n paths, the n
\* scan jobs of the batch have returned, every entry they emitted is queued in
\* entry_ch or was handed to register, and the poller has consumed exactly n
\* messages of done_ch since it forwarded the last path.
C2_BarrierAtCommit ==
  poller.pc = "commit" =>
    /\ poller.n = Len(poller.batch) /\ poller.got = poller.n
    /\ poller.paths = <<>>
    /\ \A p \in BatchPaths :
         /\ p \notin Range(path_ch) \cup Range(pool_queue) \cup {j.path : j \in jobs}
         /\ Emitted(p) \subseteq Range(entry_ch) \cup hist.registered

C2_Witness ==
  /\ poller.pc = "commit"
  /\ poller.n >= 2
  /\ \E p \in BatchPaths : Emitted(p) \cap Range(entry_ch) # {}

\* C3: the values passed to set_registration_timestamp in one run are strictly
\* increasing, each is the largest registration time of its batch plus one and
\* greater than the watermark the batch was queried with, and the persisted
\* watermark never decreases, crashes and restarts included.
C3_WatermarkMonotone ==
  /\ [](\A i \in DOMAIN hist.set_args :
          LET s == hist.set_args[i]
          IN  /\ s.time > s.lo
              /\ s.time = s.max + 1
              /\ i > 1 => s.time > hist.set_args[i - 1].time)
  /\ [][cache_timestamp' >= cache_timestamp]_vars

C3_Witness ==
  /\ crashes >= 1
  /\ Len(hist.set_args) >= 2
  /\ cache_timestamp = hist.set_args[2].time

\* The batches of earlier runs, named by the watermark they were queried with,
\* of which this run has forwarded a path again
Replayed ==
  {old[2] : old \in {e \in hist.earlier : \E f \in hist.now : f[1] = e[1]}}

C5_ForwardedOnce ==
  \A p \in StorePaths : hist.count[p] <= 1

C5_Witness ==
  /\ Cardinality({f[2] : f \in hist.now}) >= 2
  /\ hist.polls = {"error", "empty"}
  /\ \A p \in StorePaths : hist.count[p] = 1

C6_Corrupt(path) ==
  ~StartsWith(path, S_nix_store) \/ CountChar(path, "/") # 3

\* C6: a poll whose batch query returns a row with a corrupt path ends in an
\* error: it forwards no path, calls no set_registration_timestamp and leaves
\* the watermark as it was, and so does the sleep before the next poll.
C6_CorruptRowRejected ==
  /\ [][(/\ poller.pc = "poll" /\ poller'.pc \in {"sleep", "send"}
         /\ \E r \in Range(SelectRows(ReadDb(store_db, poller'.tear), from_timestamp)) :
              C6_Corrupt(r.path))
        => /\ poller'.pc = "sleep" /\ ~poller'.ok /\ poller'.sleep = 1
           /\ path_ch' = path_ch /\ hist'.now = hist.now
           /\ hist'.set_args = hist.set_args
           /\ cache_timestamp' = cache_timestamp
           /\ from_timestamp' = from_timestamp]_vars
  /\ [][(poller.pc = "sleep" /\ poller'.pc # "load")
        => /\ poller'.pc \in {"sleep", "poll"}
           /\ hist'.now = hist.now /\ hist'.set_args = hist.set_args
           /\ cache_timestamp' = cache_timestamp
           /\ from_timestamp' = from_timestamp]_vars

C6_Witness ==
  /\ poller.pc = "sleep" /\ ~poller.ok
  /\ poller.tear.i = 2
  /\ StartsWith(poller.tear.path, S_nix_store)
  /\ store_db[1].registrationTime >= poller.lo
  /\ from_timestamp = poller.lo


\* C14: a poll that returns an error or an empty batch forwards nothing, calls
\* no set_registration_timestamp and leaves the in-memory and the persisted
\* watermark as they were; the next poll is issued with the same watermark.
C14_IdlePollChangesNothing ==
  /\ [][(/\ poller.pc = "poll" /\ poller'.pc \in {"sleep", "send"}
         /\ \/ ~poller'.ok
            \/ SelectRows(ReadDb(store_db, poller'.tear), from_timestamp) = <<>>)
        => /\ poller'.pc = "sleep"
           /\ poller'.sleep = IF poller'.ok THEN 60 ELSE 1
           /\ poller'.lo = from_timestamp
           /\ path_ch' = path_ch /\ hist'.count = hist.count
           /\ hist'.set_args = hist.set_args
           /\ cache_timestamp' = cache_timestamp
           /\ from_timestamp' = from_timestamp]_vars
  /\ [][(poller.pc = "sleep" /\ poller'.pc # "load")
        => /\ poller'.pc = "sleep" \/ poller' = Idle("poll")
           /\ Len(path_ch') <= Len(path_ch) /\ hist'.count = hist.count
           /\ hist'.set_args = hist.set_args
           /\ cache_timestamp' = cache_timestamp
           /\ from_timestamp' = poller.lo]_vars

C14_Witness ==
  /\ poller.pc = "sleep" /\ poller.ok /\ poller.sleep = 60
  /\ hist.polls = {"error", "empty"}
  /\ poller.lo > 0 /\ from_timestamp = poller.lo
  /\ cache_timestamp < from_timestamp

\* The store paths forwarded on path_ch, in this run or in an earlier one
EverForwarded ==
  {p \in StorePaths : hist.count[p] > 0} \cup {e[1] : e \in hist.earlier}

\* C17: whenever the poller is idle, every path of the store database whose
\* registration time is below the in-memory watermark has been forwarded on
\* path_ch, also when nix registers paths while the poller runs.
C17_ForwardedBelowWatermark ==
  poller.pc \in {"poll", "sleep"} =>
    \A i \in DOMAIN store_db :
      store_db[i].registrationTime < from_timestamp
        => store_db[i].path \in EverForwarded

\* The paths of the batch in flight that have not reported their completion
InFlight ==
  Range(poller.paths) \cup Range(path_ch) \cup Range(pool_queue)
    \cup {j.path : j \in jobs}

\* C18: every scan job handed to the pool sends exactly one completion message
\* on done_ch, so that the completions received, those queued and the paths
\* still in flight add up to the n paths of the batch, and the batch is
\* committed.
C18_OneCompletionPerJob ==
  poller.pc \in {"send", "await", "commit"} =>
    poller.got + done_ch + Len(poller.paths) + Len(path_ch) + Len(pool_queue)
      + Cardinality(jobs) = poller.n

\* C19: whenever the poller issues a batch query, path_ch and done_ch are empty
\* and no scan job is queued or running.
C19_OneBatchInFlight ==
  poller.pc = "poll" =>
    /\ path_ch = <<>> /\ done_ch = 0
    /\ pool_queue = <<>> /\ jobs = {}

C19_Witness ==
  /\ poller.pc = "poll"
  /\ Len(hist.set_args) = 1
  /\ entry_ch # <<>>
  /\ \E i \in DOMAIN store_db : store_db[i].registrationTime >= from_timestamp

\* The cache holds what entry supplies
InCache(entry) ==
  /\ entry.buildid \in DOMAIN cache_rows
  /\ \A f \in EntryFields :
       entry[f] # None => cache_rows[entry.buildid][f] = entry[f]

\* C20: when register never fails, every entry emitted by the scan of a path
\* whose registration time is below the persisted watermark is in the cache, or
\* is still to be registered: it is queued in entry_ch or its path is in flight
\* and will be scanned, crashes and restarts included.
C20_NoEntryLost ==
  ~hist.register_failed =>
    \A i \in DOMAIN store_db :
      (/\ store_db[i].registrationTime < cache_timestamp
       /\ store_db[i].path \in EverForwarded)
        => \A m \in Emitted(store_db[i].path) :
             \/ InCache(m.entry)
             \/ m \in Range(entry_ch)
             \/ store_db[i].path \in InFlight
(***************************************************************************)
(* SpecLoad: one bounded channel of spawn_store_watcher, or its thread     *)
(* pool, under more load than it holds.  The producer and the consumer are *)
(* free to run at any speed, which includes every way the pipeline drives  *)
(* them:                                                                   *)
(*   path_ch   poller -> dispatcher; a batch of more than 200 paths        *)
(*   done_ch   scan jobs -> poller                                         *)
(*   entry_ch  scan jobs -> registering task                               *)
(*   pool      the jobs handed to threadpool.execute                       *)
(* ld.backlog counts what the producer has still to send (or the jobs not  *)
(* started), ld.held what the channel holds (or the jobs running) and      *)
(* ld.taken what was received (or the jobs that ended).                    *)
(***************************************************************************)
MaxExtra == 1

LoadChannels == {"path_ch", "done_ch", "entry_ch"}

InitLoad ==
  /\ \E focus \in LoadChannels \cup {"pool"}, extra \in 0..MaxExtra :
       ld = [focus |-> focus,
             total |-> (IF focus = "pool" THEN PoolSize ELSE ChanCap) + extra,
             backlog |-> (IF focus = "pool" THEN PoolSize ELSE ChanCap) + extra,
             held |-> 0, taken |-> 0]
  /\ bq = None /\ cc = None /\ sc = None /\ srv = None
  /\ PipelineOff

\* path_sender.send(path).await, path_done_sender_moved.blocking_send(()),
\* sendto.blocking_send(entry)
LoadSend ==
  /\ ld.focus \in LoadChannels
  /\ ld.backlog > 0
  /\ HasCapacity(ld.held)
  /\ ld' = [ld EXCEPT !.backlog = @ - 1, !.held = @ + 1]
  /\ UNCHANGED <<bq, cc, sc, srv, pipeline>>

\* path_receiver.blocking_recv(), path_done_receiver.recv().await,
\* entry_receiver.recv().await
LoadRecv ==
  /\ ld.focus \in LoadChannels
  /\ ld.held > 0
  /\ ld' = [ld EXCEPT !.held = @ - 1, !.taken = @ + 1]
  /\ UNCHANGED <<bq, cc, sc, srv, pipeline>>

\* A thread of the pool takes a job handed to threadpool.execute
LoadJobStart ==
  /\ ld.focus = "pool"
  /\ ld.backlog > 0
  /\ ThreadFree(ld.held)
  /\ ld' = [ld EXCEPT !.backlog = @ - 1, !.held = @ + 1]
  /\ UNCHANGED <<bq, cc, sc, srv, pipeline>>

\* The job returns or panics
LoadJobEnd ==
  /\ ld.focus = "pool"
  /\ ld.held > 0
  /\ ld' = [ld EXCEPT !.held = @ - 1, !.taken = @ + 1]
  /\ UNCHANGED <<bq, cc, sc, srv, pipeline>>

NextLoad == LoadSend \/ LoadRecv \/ LoadJobStart \/ LoadJobEnd

\* C16: at most 8 scan jobs execute at the same time and no channel holds more
\* than 200 messages; a producer whose channel is full waits until a message
\* is received, and no message is dropped.
C16_BoundedAndBlocking ==
  /\ [](/\ ld.focus = "pool" => ld.held <= 8
        /\ ld.focus \in LoadChannels => ld.held <= 200
        /\ ld.backlog + ld.held + ld.taken = ld.total)
  /\ [][(ld.focus \in LoadChannels /\ ld.held = 200)
        => (ld'.backlog = ld.backlog /\ ld'.held = 199)]_vars
  /\ [][(ld.focus = "pool" /\ ld.held = 8)
        => (ld'.backlog = ld.backlog /\ ld'.held = 7)]_vars

C16_Witness ==
  /\ ld.focus = "done_ch"
  /\ ld.held = 200 /\ ld.backlog = 1
Spec == Init /\ [][Next]_vars

SpecBatch == InitBatch /\ [][NextBatch]_vars

SpecCache == InitCache /\ [][NextCache]_vars

SpecScan == InitScan /\ [][NextScan]_vars

SpecLoad == InitLoad /\ [][NextLoad]_vars

SpecServer == InitServer /\ [][NextServer]_vars

====
